---- MODULE Spec2Model ----
(***************************************************************************)
(* The HTMLElement wrapper of src/src/type/AnyElement.ts: a wrapper object *)
(* holding one DOM element, the element tree it reads (parentElement, id,  *)
(* tagName, classList), the operations that build the tree (create,        *)
(* createChild, the id setter) and the three ancestor searches             *)
(* (getAncestorById, getAncestorByTag, getAncestorByClass) with their      *)
(* shared recursion getAncestorByClassRecursive.                           *)
(*                                                                         *)
(* The program is single threaded and every method runs to completion, so  *)
(* each method call is one action.  A search returns a value or raises a   *)
(* TypeError; the outcome of the latest call is kept in the variable last. *)
(***************************************************************************)
EXTENDS Integers, Sequences, FiniteSets, TLC

\* Bound of the model: how many elements may exist (the root included).
MaxNodes == 3

Node == 1..MaxNodes

\* JavaScript's null where an element is expected (parentElement of a root,
\* the result of a search that found nothing).
NoNode == 0

\* JavaScript's null where a string is expected (the id getter and setter).
\* No id of the model is this string.
Null == "<null>"

\* The element the document starts with (document.documentElement).
Root == 1

\* Values of the id attribute; "" is an element without an id.
Ids == {"", "x"}

\* Tags handed to document.createElement.  With the root's "html" the model
\* has two tag names.
Tags == {"div"}

\* Values of the className property: a whitespace separated list of tokens,
\* here the sequence of its tokens.
ClassNames == {<< >>, <<"foo">>, <<"foo", "bar">>}

\* The properties argument of create and createChild.  A property left out
\* (or properties left undefined) leaves the fresh element's default, which
\* is "" for id and the empty className.
Properties == [id : Ids, className : ClassNames]

\* Arguments of the searches.
IdConditions == {"", "x", "y"}
TagConditions == {"DIV", "div", "HTML"}
ClassConditions == {"foo", "bar", "baz"}

VARIABLES
    created,        \* elements 1..created exist
    parentElement,  \* Element.parentElement, NoNode for a root
    children,       \* Element.children, in document order
    id,             \* Element.id
    tagName,        \* Element.tagName
    className,      \* Element.className, the source of Element.classList
    this_element,   \* the field element of the wrapper the methods are called on
    last,           \* the latest call: method, receiver, argument, outcome
    repeat          \* the latest call repeated the one before, on the same tree

dom == <<created, parentElement, children, id, tagName, className>>
vars == <<created, parentElement, children, id, tagName, className,
          this_element, last, repeat>>

Elements == 1..created

\* document.createElement in an HTML document: tagName is the upper-cased tag.
ToUpperCase(tag) ==
    CASE tag = "div" -> "DIV"
      [] tag = "p" -> "P"
      [] tag = "html" -> "HTML"
      [] OTHER -> tag

\* Element.classList of an element: the set of tokens of its className.
classList(e) == {className[e][i] : i \in DOMAIN className[e]}

\* DOMTokenList.contains(token).
contains(tokens, token) == token \in tokens

\* typeof element[property]: id and tagName are primitive strings, classList
\* is a DOMTokenList object.
TypeOf(property) == IF property \in {"id", "tagName"} THEN "string" ELSE "object"

\* element[property] for the two string properties.
StringProperty(e, property) == IF property = "id" THEN id[e] ELSE tagName[e]

\* The getter id of the wrapper: this.element.id || null.
idGet(e) == IF id[e] = "" THEN Null ELSE id[e]

\* The result record of a call.
Result(op, self, arg, outcome, node, examined) ==
    [op |-> op, self |-> self, arg |-> arg, outcome |-> outcome,
     node |-> node, examined |-> examined]

SearchOps == {"getAncestorById", "getAncestorByTag", "getAncestorByClass"}

IsSearch(r) == r.op \in SearchOps


\* A variant of the recursion that looks at the parent chain before the
\* element itself, so that the farthest match wins.
RECURSIVE getAncestorByClassRecursive_farthest(_, _, _)
getAncestorByClassRecursive_farthest(condition, property, element) ==
    LET up == IF parentElement[element] # NoNode
              THEN getAncestorByClassRecursive_farthest(
                       condition, property, parentElement[element])
              ELSE [outcome |-> "null", node |-> NoNode, examined |-> << >>]
    IN  IF up.outcome = "found"
        THEN [up EXCEPT !.examined = <<element>> \o @]
        ELSE IF \/ TypeOf(property) = "string"
                   /\ StringProperty(element, property) = condition
                \/ TypeOf(property) = "object"
                   /\ contains(classList(element), condition)
        THEN [outcome |-> "found", node |-> element,
              examined |-> <<element>> \o up.examined]
        ELSE [up EXCEPT !.examined = <<element>> \o @]

\* The recursion shared by the three searches.  It returns the outcome of
\* the call (a wrapper of node was returned, null was returned, or a
\* TypeError was raised) and the elements whose property was read, in order.
\*   1. typeof element[property] == "string" && element[property] == condition
\*   2. "contains" in element[property] && element[property].contains(condition)
\*      The operator in raises a TypeError when its right operand is not an
\*      object, which is the case for the strings id and tagName.
\*   3. element.parentElement: recurse
\*   4. null
RECURSIVE getAncestorByClassRecursive(_, _, _)
getAncestorByClassRecursive(condition, property, element) ==
    IF TypeOf(property) = "string" /\ StringProperty(element, property) = condition
    THEN [outcome |-> "found", node |-> element, examined |-> <<element>>]
    ELSE IF TypeOf(property) # "object"
    THEN [outcome |-> "TypeError", node |-> NoNode, examined |-> <<element>>]
    ELSE IF contains(classList(element), condition)
    THEN [outcome |-> "found", node |-> element, examined |-> <<element>>]
    ELSE IF parentElement[element] # NoNode
    THEN LET up == getAncestorByClassRecursive(
                       condition, property, parentElement[element])
         IN  [up EXCEPT !.examined = <<element>> \o @]
    ELSE [outcome |-> "null", node |-> NoNode, examined |-> <<element>>]

\* What a search leaves in last and repeat, given the recursion's result r.
Returned(op, condition, r) ==
    /\ last' = Result(op, this_element, condition, r.outcome, r.node, r.examined)
    /\ repeat' = (/\ last.op = op
                  /\ last.self = this_element
                  /\ last.arg = condition)

\* A variant of getAncestorById that starts at the parent of this.element.
getAncestorById_exclusive ==
    \E condition \in IdConditions :
        /\ Returned("getAncestorById", condition,
               IF parentElement[this_element] = NoNode
               THEN [outcome |-> "null", node |-> NoNode, examined |-> << >>]
               ELSE getAncestorByClassRecursive(
                        condition, "id", parentElement[this_element]))
        /\ UNCHANGED <<dom, this_element>>

getAncestorById ==
    \E condition \in IdConditions :
        /\ Returned("getAncestorById", condition,
               getAncestorByClassRecursive(condition, "id", this_element))
        /\ UNCHANGED <<dom, this_element>>

\* A variant of getAncestorByTag that walks by moving the receiver's own
\* element to its parent.
getAncestorByTag_moves ==
    \E condition \in TagConditions :
        LET r == getAncestorByClassRecursive(condition, "tagName", this_element)
        IN  /\ Returned("getAncestorByTag", condition, r)
            /\ this_element' =
                 IF r.outcome # "found" /\ parentElement[this_element] # NoNode
                 THEN parentElement[this_element]
                 ELSE this_element
            /\ UNCHANGED dom

getAncestorByTag ==
    \E condition \in TagConditions :
        /\ Returned("getAncestorByTag", condition,
               getAncestorByClassRecursive(condition, "tagName", this_element))
        /\ UNCHANGED <<dom, this_element>>

\* A variant of getAncestorByClass that removes the token from the element
\* it finds (classList.remove where the code reads classList.contains).
getAncestorByClass_removes ==
    \E condition \in ClassConditions :
        LET r == getAncestorByClassRecursive(condition, "classList", this_element)
        IN  /\ Returned("getAncestorByClass", condition, r)
            /\ className' =
                 IF r.outcome = "found"
                 THEN [className EXCEPT ![r.node] =
                          SelectSeq(@, LAMBDA t : t # condition)]
                 ELSE className
            /\ UNCHANGED <<created, parentElement, children, id, tagName,
                           this_element>>

getAncestorByClass ==
    \E condition \in ClassConditions :
        /\ Returned("getAncestorByClass", condition,
               getAncestorByClassRecursive(condition, "classList", this_element))
        /\ UNCHANGED <<dom, this_element>>

\* new HTMLElement(element): a wrapper of an existing element, on which the
\* next methods are called.
Construct ==
    \E element \in Elements :
        /\ this_element' = element
        /\ last' = Result("constructor", element, "", "ok", element, << >>)
        /\ repeat' = FALSE
        /\ UNCHANGED dom

\* The setter id of the wrapper: this.element.id = id ?? "".
idSet ==
    \E v \in Ids \cup {Null} :
        /\ id' = [id EXCEPT ![this_element] = IF v = Null THEN "" ELSE v]
        /\ last' = Result("id", this_element, v, "ok", NoNode, << >>)
        /\ repeat' = FALSE
        /\ UNCHANGED <<created, parentElement, children, tagName, className,
                       this_element>>

\* document.createElement(tag) followed by Object.assign(element, properties):
\* the fields of the fresh element fresh.
Created(fresh, tag, properties) ==
    /\ created' = fresh
    /\ tagName' = [tagName EXCEPT ![fresh] = ToUpperCase(tag)]
    /\ id' = [id EXCEPT ![fresh] = properties.id]
    /\ className' = [className EXCEPT ![fresh] = properties.className]

\* HTMLElement.create(tag, properties): the element is left without a parent.
create ==
    /\ created < MaxNodes
    /\ \E tag \in Tags, properties \in Properties :
        /\ Created(created + 1, tag, properties)
        /\ last' = Result("create", NoNode, tag, "ok", created + 1, << >>)
        /\ repeat' = FALSE
        /\ UNCHANGED <<parentElement, children, this_element>>

\* A variant of appendChild that inserts the child before the first child.
appendChild_first(self, child) ==
    [children EXCEPT ![self] = <<child>> \o @]

\* this.element.appendChild(element.element) for an element without a
\* parent: the children of self afterwards.
appendChild(self, child) ==
    [children EXCEPT ![self] = Append(@, child)]

\* createChild(tag, properties): create, then this.appendChild(element).
createChild ==
    /\ created < MaxNodes
    /\ \E tag \in Tags, properties \in Properties :
        /\ Created(created + 1, tag, properties)
        /\ children' = appendChild(this_element, created + 1)
        /\ parentElement' = [parentElement EXCEPT ![created + 1] = this_element]
        /\ last' = Result("createChild", this_element, tag, "ok", created + 1, << >>)
        /\ repeat' = FALSE
        /\ UNCHANGED this_element

\* The document before the program runs: the root element alone, with the
\* class attribute its markup gives it.
Init ==
    /\ created = 1
    /\ parentElement = [n \in Node |-> NoNode]
    /\ children = [n \in Node |-> << >>]
    /\ id = [n \in Node |-> ""]
    /\ tagName = [n \in Node |-> IF n = Root THEN ToUpperCase("html") ELSE ""]
    /\ \E c \in ClassNames :
          className = [n \in Node |-> IF n = Root THEN c ELSE << >>]
    /\ this_element = Root
    /\ last = Result("constructor", Root, "", "ok", Root, << >>)
    /\ repeat = FALSE

Next ==
    \/ Construct
    \/ idSet
    \/ create
    \/ createChild
    \/ getAncestorById
    \/ getAncestorByTag
    \/ getAncestorByClass

Spec == Init /\ [][Next]_vars


(***************************************************************************)
(* What the searches are specified to do, stated on the tree alone.        *)
(***************************************************************************)

\* The property a search reads.
PropertyOf(op) ==
    CASE op = "getAncestorById" -> "id"
      [] op = "getAncestorByTag" -> "tagName"
      [] OTHER -> "classList"

\* The match rule of a search condition: equal id, equal tag name, or the
\* condition is one of the class tokens.
Matches(property, condition, e) ==
    CASE property = "id" -> id[e] = condition
      [] property = "tagName" -> tagName[e] = condition
      [] OTHER -> condition \in classList(e)

\* The ancestor chain of e: e, its parent, ... up to the root of its tree.
RECURSIVE Chain(_)
Chain(e) ==
    IF parentElement[e] = NoNode THEN <<e>> ELSE <<e>> \o Chain(parentElement[e])

\* The first element of the chain of e that matches, NoNode when none does.
Nearest(property, condition, e) ==
    LET chain == Chain(e)
        hits == {i \in DOMAIN chain : Matches(property, condition, chain[i])}
    IN  IF hits = {} THEN NoNode
        ELSE chain[CHOOSE i \in hits : \A j \in hits : i <= j]

\* The latest call returned a wrapper of e.
Found(e) == last.outcome = "found" /\ last.node = e

\* The latest call returned what the specification of the search asks for.
AsSpecified ==
    LET n == Nearest(PropertyOf(last.op), last.arg, last.self)
    IN  IF n = NoNode THEN last.outcome = "null" ELSE Found(n)

\* C1: getAncestorByTag(t) returns the nearest element of the chain, the
\* start included, whose tag name equals t, and null when there is none.
C1_TagNearest ==
    last.op = "getAncestorByTag" => AsSpecified

\* C2: when the start's id differs from x and a proper ancestor has id x,
\* getAncestorById(x) returns the nearest such ancestor.
C2_IdNearestAncestor ==
    (/\ last.op = "getAncestorById"
     /\ id[last.self] # last.arg
     /\ Nearest("id", last.arg, last.self) # NoNode)
    => Found(Nearest("id", last.arg, last.self))

\* C3: getAncestorByClass(c) returns the nearest element of the chain, the
\* start included, whose class tokens contain c, and null when there is none.
C3_ClassNearest ==
    last.op = "getAncestorByClass" => AsSpecified

\* C3 witness: a class search passed over the start and returned a proper
\* ancestor although a farther ancestor has the token too.
C3_Witness ==
    /\ last.op = "getAncestorByClass"
    /\ last.outcome = "found"
    /\ last.node # last.self
    /\ parentElement[last.node] # NoNode
    /\ Nearest("classList", last.arg, parentElement[last.node]) # NoNode

\* C4: a search of any kind on a chain without a match returns null, it
\* does not raise.
C4_NoMatchIsNull ==
    (IsSearch(last) /\ Nearest(PropertyOf(last.op), last.arg, last.self) = NoNode)
    => last.outcome = "null"

\* C5: a search whose start satisfies the condition returns the start, for
\* each of the three kinds and whatever its ancestors are.
C5_Inclusive ==
    (IsSearch(last) /\ Matches(PropertyOf(last.op), last.arg, last.self))
    => Found(last.self)

\* C5 witness: an id search from an element with that id, whose parent has
\* the same id, returned the start.
C5_Witness ==
    /\ last.op = "getAncestorById"
    /\ last.arg = "x"
    /\ id[last.self] = "x"
    /\ parentElement[last.self] # NoNode
    /\ id[parentElement[last.self]] = "x"
    /\ Found(last.self)

\* C6: a search from a root that does not satisfy the condition returns null
\* after reading exactly one element, for each of the three kinds.
C6_RootExaminedOnce ==
    (/\ IsSearch(last)
     /\ parentElement[last.self] = NoNode
     /\ ~Matches(PropertyOf(last.op), last.arg, last.self))
    => (last.outcome = "null" /\ last.examined = <<last.self>>)

\* C7: a search leaves every element's parent, children, id, tag name and
\* class tokens, and the receiver's element, as they were.
C7_SearchReadsOnly ==
    [][IsSearch(last') => UNCHANGED <<dom, this_element>>]_vars

\* C7 witness: in a full tree a search followed the same search, and
\* returned a proper ancestor of the receiver's element.
C7_Witness ==
    /\ IsSearch(last)
    /\ repeat
    /\ created = MaxNodes
    /\ last.outcome = "found"
    /\ last.node # last.self

\* C8: a search called again with the same receiver and argument, with no
\* other call in between, has the same outcome and returns the same element.
C8_RepeatSameOutcome ==
    [][(/\ IsSearch(last)
        /\ last'.op = last.op
        /\ last'.self = last.self
        /\ last'.arg = last.arg)
       => (last'.outcome = last.outcome /\ last'.node = last.node)]_vars

\* C8 witness: a class search that had found the start itself was repeated.
C8_Witness ==
    /\ last.op = "getAncestorByClass"
    /\ repeat
    /\ Found(last.self)

\* C9: createChild makes the new element the last child of the receiver's
\* element, keeps the earlier children in order, touches no other element's
\* links and returns the new element; create returns an element without a
\* parent that is nobody's child.
C9_CreateChildAppends ==
    [][/\ last'.op = "createChild" =>
            LET w == last'.self
                n == last'.node
            IN  /\ w = this_element
                /\ n \notin Elements
                /\ n \in 1..created'
                /\ parentElement'[n] = w
                /\ children'[w] = Append(children[w], n)
                /\ \A m \in Node \ {w} : children'[m] = children[m]
                /\ \A m \in Node \ {n} : parentElement'[m] = parentElement[m]
       /\ last'.op = "create" =>
            LET n == last'.node
            IN  /\ n \notin Elements
                /\ n \in 1..created'
                /\ parentElement'[n] = NoNode
                /\ \A m \in Node :
                     /\ children'[m] = children[m]
                     /\ \A i \in DOMAIN children'[m] : children'[m][i] # n
      ]_vars

\* C9 witness: createChild was called on an element that already had a child.
C9_Witness ==
    /\ last.op = "createChild"
    /\ Len(children[last.self]) >= 2
    /\ children[last.self][Len(children[last.self])] = last.node

\* C10: getAncestorById("") returns the nearest element of the chain, the
\* start included, whose id getter returns null.
C10_EmptyIdNearest ==
    (last.op = "getAncestorById" /\ last.arg = "")
    => LET chain == Chain(last.self)
           hits == {i \in DOMAIN chain : idGet(chain[i]) = Null}
       IN  IF hits = {} THEN last.outcome = "null"
           ELSE Found(chain[CHOOSE i \in hits : \A j \in hits : i <= j])

====
